---- MODULE Spec2Model ----
(***************************************************************************)
(* A model of main_setup() of FluidX3D-master/src/setup.cpp: the one-time  *)
(* initialisation (voxelize_stl, then the parallel_for boundary pass), and *)
(* the interactive main loop (export on key_9, pause on !key_P, batches of *)
(* 20 engine steps) that runs until t > lbm_T or running is false.         *)
(*                                                                         *)
(* The engine (LBM, its fields, parallel_for, the key flags and their      *)
(* writer) is not part of setup.cpp; those definitions follow the          *)
(* interface the repository's specification gives for them.                *)
(***************************************************************************)
EXTENDS Integers, Sequences, FiniteSets, TLC

\* ---------------------------------------------------------------- bounds
\* Largest grid dimension of the initialisation model (setup.cpp sizes the
\* real grid from 3000 MB; the pass is the same code on any shape).
MaxN == 3
\* Worker threads parallel_for distributes the cell indices over.
NumThreads == 2
\* Step budget lbm_T of setup.cpp:8 (108000 there), scaled to the budget of
\* the loop-termination example so that the whole run is explored.
lbm_T == 100

\* ------------------------------------------------------ program constants
\* setup.cpp:7, const float lbm_u = 0.075f, in thousandths.
lbm_u == 75
\* setup.cpp:50, lbm.run(20u, lbm_T): engine steps per batch.
BatchSteps == 20
\* x-velocity of every cell after construction of the LBM object.
u_default == 0

\* Cell flags: a regular fluid cell, a solid cell, an equilibrium boundary.
TYPE_F == "TYPE_F"
TYPE_S == "TYPE_S"
TYPE_E == "TYPE_E"

VARIABLES
    lbm_N,        \* grid shape <<Nx, Ny, Nz>>, setup.cpp:5
    flags,        \* lbm.flags[n]
    ux,           \* lbm.u.x[n]
    vox,          \* history: lbm.flags as voxelize_stl left it
    next_n,       \* per worker thread: the next cell index it will process
    touched,      \* history: the cell indices whose lambda has run
    pc,           \* position of the control thread in main_setup
    t,            \* lbm.get_t(): engine steps done
    steps,        \* engine steps done inside the current lbm.run(20u, ..)
    running,      \* global stop flag, written by the input handler
    key_9,        \* export trigger, set by the input handler
    key_P,        \* run/pause flag (FALSE: paused), toggled by the input handler
    force_field,  \* build variant: FORCE_FIELD defined (setup.cpp:36)
    inits,        \* history: calls of lbm.run(0u, lbm_T)
    batches,      \* history: calls of lbm.run(20u, lbm_T)
    ever_paused,  \* history: some tick took the pause branch
    failed_ever,  \* history: some field export failed
    t_stop,       \* history: t when running was set to false (-1: not yet)
    tick_t,       \* history: t when the current tick began
    tick_key9,    \* history: key_9 when the current tick began
    set9,         \* history: the input handler set key_9 since the tick began
    tick_paused,  \* history: the current tick read key_P as paused
    tick_failed,  \* history: a field export of the current tick failed
    req9,         \* history: the latest set of key_9 in the current tick, before
                  \* its pause check: none / pending / exporting / served
    req_paused,   \* history: the same for the latest set of key_9 that fell in
                  \* a paused tick since the last batch
    yz_writes,    \* history: the cells whose lbm.u.y or lbm.u.z was written
    cur,          \* per worker thread: the cell whose lambda it is inside (-1: none)
    status_writes,\* history: calls of lbm.write_status()
    exports,      \* history: the fields exported so far in the current tick
    saw9,         \* history: the current tick read key_9 as set
    req_all,      \* history: the latest set of key_9: pending (no export has
                  \* started since) / exporting / lost (cleared while pending,
                  \* kept until the pause check) / none
    stop_hist,    \* history: how the stop request arrived, and what followed
    res           \* inputs and outputs of resolution(), setup.cpp:5

gridvars == <<lbm_N, flags, ux, vox, next_n, touched>>
simvars  == <<t, steps>>
keyvars  == <<running, key_9, key_P>>
runhist  == <<inits, batches, ever_paused, failed_ever, t_stop>>
tickhist == <<tick_t, tick_key9, set9, tick_paused, tick_failed>>
reqhist  == <<req9, req_paused>>
newvars  == <<yz_writes, cur, status_writes, exports, saw9, req_all, stop_hist, res>>
ctrlvars == <<t, steps, running, key_9, key_P, force_field, inits, batches,
              ever_paused, failed_ever, t_stop, tick_t, tick_key9, set9,
              tick_paused, tick_failed, req9, req_paused>>
vars == <<lbm_N, flags, ux, vox, next_n, touched, pc, t, steps, running,
          key_9, key_P, force_field, inits, batches, ever_paused, failed_ever,
          t_stop, tick_t, tick_key9, set9, tick_paused, tick_failed, req9,
          req_paused, yz_writes, cur, status_writes, exports, saw9, req_all,
          stop_hist, res>>

\* --------------------------------------------------------------- the grid
Nx == lbm_N[1]
Ny == lbm_N[2]
Nz == lbm_N[3]
get_N == Nx * Ny * Nz
Cells == 0 .. (get_N - 1)

\* LBM::coordinates(n, x, y, z): linear index to grid coordinates.
coordinates(n) == <<n % Nx, (n \div Nx) % Ny, n \div (Nx * Ny)>>

\* Grid shapes of the initialisation model.
GridShapes == {<<a, b, c>> : a \in 1 .. MaxN, b \in 1 .. MaxN, c \in 1 .. MaxN}

\* The shape the complete run is explored on: the smallest grid of the box
\* aspect ratio float3(2.0f, 1.0f, 1.0f) of setup.cpp:5.
RunShape == <<2, 1, 1>>

\* Outputs of voxelize_stl explored: no solid cell, any single solid cell
\* (interior or on a face), or any solid slab: the layers a..b along one axis
\* (a whole face, an interior layer, the whole grid).
Slab(axis, a, b) ==
    {n \in Cells : a <= coordinates(n)[axis] /\ coordinates(n)[axis] <= b}

VoxelOutputs ==
    {{}} \cup {{n} : n \in Cells}
         \cup {Slab(axis, a, b) : axis \in 1 .. 3, a \in 0 .. MaxN - 1, b \in 0 .. MaxN - 1}

\* parallel_for(N, lambda): thread w runs lambda(n) for its share of 0..N-1,
\* in increasing n.
Threads == 0 .. (NumThreads - 1)
ChunkLo(w) == (get_N * w) \div NumThreads
ChunkHi(w) == (get_N * (w + 1)) \div NumThreads

\* ------------------------------------------- the boundary initializer body
\* setup.cpp:19, the condition: the cell lies on one of the six outer faces.
IsEdge_noZmax(x, y, z) ==
    x = 0 \/ x = Nx - 1 \/ y = 0 \/ y = Ny - 1 \/ z = 0

IsEdge(x, y, z) ==
    x = 0 \/ x = Nx - 1 \/ y = 0 \/ y = Ny - 1 \/ z = 0 \/ z = Nz - 1

\* The solid test looks at the flag of the next cell index.
SeedVelocity_neighbour(f, u, n) ==
    IF f[(n + 1) % get_N] # TYPE_S THEN [u EXCEPT ![n] = lbm_u] ELSE u

\* setup.cpp:18: if(lbm.flags[n]!=TYPE_S) lbm.u.x[n] = lbm_u;
SeedVelocity_always(f, u, n) == [u EXCEPT ![n] = lbm_u]

SeedVelocity(f, u, n) ==
    IF f[n] # TYPE_S THEN [u EXCEPT ![n] = lbm_u] ELSE u

\* setup.cpp:19: if(x==0u||...||z==Nz-1u) lbm.flags[n] = TYPE_E;
MarkBoundary(f, n) ==
    LET c == coordinates(n)
    IN  IF IsEdge(c[1], c[2], c[3]) THEN [f EXCEPT ![n] = TYPE_E] ELSE f

\* setup.cpp:17-20, the lambda: the velocity is seeded from the flag as the
\* voxelizer left it, then the flag is overwritten.
CellBody_flagFirst(f, u, n) ==
    LET f2 == MarkBoundary(f, n)
    IN  [flags |-> f2, ux |-> SeedVelocity(f2, u, n)]

CellBody(f, u, n) ==
    [flags |-> MarkBoundary(f, n), ux |-> SeedVelocity(f, u, n)]

\* The lambda of setup.cpp:17-20 has no statement on lbm.u.y or lbm.u.z.
CellBodyYZ_seeded(written, n) == written \cup {n}

CellBodyYZ(written, n) == written

\* ------------------------------------------------------- initial condition
\* No stop request yet.
NotStopped == [case |-> "none", issued |-> 0, heads |-> 0, steps |-> 0]

\* The stop request came on pause and the flag has stayed on pause since.
HeldCases == {"paused_idle", "paused_committed"}

\* resolution() not called.
ResIdle == [aspect |-> <<2, 1, 1>>, b1 |-> 0, b2 |-> 0, out |-> <<>>]

\* After construction of the LBM object (setup.cpp:9): every cell a fluid
\* cell at rest, t = 0. The key flags are as the process starts them: the
\* simulation paused, no export requested, running (the input handler may
\* change them from the first moment on).
InitWith(shapes) ==
    /\ lbm_N \in shapes
    /\ flags = [n \in Cells |-> TYPE_F]
    /\ ux = [n \in Cells |-> u_default]
    /\ vox = [n \in Cells |-> TYPE_F]
    /\ next_n = [w \in Threads |-> 0]
    /\ touched = {}
    /\ pc = "voxelize_stl"
    /\ t = 0
    /\ steps = 0
    /\ running = TRUE
    /\ key_9 = FALSE
    /\ key_P = FALSE
    /\ inits = 0
    /\ batches = 0
    /\ ever_paused = FALSE
    /\ failed_ever = FALSE
    /\ t_stop = -1
    /\ tick_t = 0
    /\ tick_key9 = FALSE
    /\ set9 = FALSE
    /\ tick_paused = FALSE
    /\ tick_failed = FALSE
    /\ req9 = "none"
    /\ req_paused = "none"
    /\ yz_writes = {}
    /\ cur = [w \in Threads |-> -1]
    /\ status_writes = 0
    /\ exports = <<>>
    /\ saw9 = FALSE
    /\ req_all = "none"
    /\ stop_hist = NotStopped

\* ------------------------------------------------- initialisation actions
\* setup.cpp:15, lbm.voxelize_stl(...): blocking; writes TYPE_S into flags.
\* On return the control thread enters parallel_for (setup.cpp:17), which
\* starts every worker at the first index of its share.
Voxelize ==
    /\ pc = "voxelize_stl"
    /\ \E S \in VoxelOutputs :
          /\ flags' = [n \in Cells |-> IF n \in S THEN TYPE_S ELSE flags[n]]
          /\ vox' = [n \in Cells |-> IF n \in S THEN TYPE_S ELSE flags[n]]
    /\ next_n' = [w \in Threads |-> ChunkLo(w)]
    /\ pc' = "parallel_for"
    /\ UNCHANGED <<lbm_N, ux, touched>>
    /\ UNCHANGED ctrlvars
    /\ UNCHANGED newvars

\* One call of the lambda of setup.cpp:17-20 by worker w.
Cell(w) ==
    /\ pc = "parallel_for"
    /\ next_n[w] < ChunkHi(w)
    /\ LET r == CellBody(flags, ux, next_n[w])
       IN  /\ flags' = r.flags
           /\ ux' = r.ux
    /\ next_n' = [next_n EXCEPT ![w] = next_n[w] + 1]
    /\ touched' = touched \cup {next_n[w]}
    /\ UNCHANGED <<lbm_N, vox, pc>>
    /\ UNCHANGED ctrlvars
    /\ yz_writes' = CellBodyYZ(yz_writes, next_n[w])
    /\ UNCHANGED <<cur, status_writes, exports, saw9, req_all, stop_hist, res>>

\* parallel_for returns when every worker has finished its share.
Joinable == \A w \in Threads : next_n[w] = ChunkHi(w)

Join ==
    /\ pc = "parallel_for"
    /\ Joinable
    /\ pc' = "write_status"
    /\ UNCHANGED gridvars
    /\ UNCHANGED ctrlvars
    /\ UNCHANGED newvars

NextSetup == Voxelize \/ (\E w \in Threads : Cell(w)) \/ Join

\* The pass does not depend on the build variant: one variant is explored.
InitSetup == InitWith(GridShapes) /\ force_field = FALSE /\ res = ResIdle

SpecSetup == InitSetup /\ [][NextSetup]_vars

\* The boundary initializer pass has completed.
PassDone == pc \notin {"voxelize_stl", "parallel_for"}

\* ------------------------------------------------ claims on initialisation
\* C1. Boundary invariant: once the boundary initializer pass has completed,
\* every cell with x in {0, Nx-1} or y in {0, Ny-1} or z in {0, Nz-1} carries
\* TYPE_E, for every grid shape and every voxelizer output, also where the
\* voxelizer had written TYPE_S.
C1_BoundaryInvariant ==
    PassDone =>
        \A n \in Cells :
            LET c == coordinates(n)
            IN  (c[1] \in {0, Nx - 1} \/ c[2] \in {0, Ny - 1} \/ c[3] \in {0, Nz - 1})
                    => flags[n] = TYPE_E

\* C1 witness: a 3x3x3 grid whose whole face x = 0 (and nothing else) was
\* solidified by the voxelizer, after the pass: the face carries TYPE_E.
C1_Witness ==
    /\ PassDone
    /\ lbm_N = <<3, 3, 3>>
    /\ \A n \in Cells : (coordinates(n)[1] = 0) <=> (vox[n] = TYPE_S)
    /\ \A n \in Cells : coordinates(n)[1] = 0 => flags[n] = TYPE_E

\* C2. Velocity seeding exclusion: once the pass has completed, every cell
\* whose flag is TYPE_S still has its pre-pass x-velocity (the value the
\* constructor gave it), not the inlet velocity lbm_u.
C2_SolidNotSeeded ==
    PassDone =>
        \A n \in Cells : flags[n] = TYPE_S => (ux[n] = u_default /\ ux[n] # lbm_u)

\* C2 witness: after the pass a cell is still TYPE_S (an interior cell the
\* voxelizer solidified) while some other cell was seeded with lbm_u.
C2_Witness ==
    /\ PassDone
    /\ \E n \in Cells : flags[n] = TYPE_S /\ n \in touched
    /\ \E n \in Cells : ux[n] = lbm_u

\* C3 as stated. After the pass every domain-edge cell has flag TYPE_E and
\* x-velocity lbm_u, for every voxelizer output, also for edge cells the
\* voxelizer had marked TYPE_S.
C3_EdgeSeeded_Original ==
    PassDone =>
        \A n \in Cells :
            LET c == coordinates(n)
            IN  (c[1] \in {0, Nx - 1} \/ c[2] \in {0, Ny - 1} \/ c[3] \in {0, Nz - 1})
                    => (flags[n] = TYPE_E /\ ux[n] = lbm_u)

\* C3 as amended. After the pass every domain-edge cell has flag TYPE_E; its
\* x-velocity is lbm_u when the voxelizer had left it non-solid, and its
\* pre-pass value when the voxelizer had marked it TYPE_S (the seed of
\* setup.cpp:18 reads the flag before setup.cpp:19 overwrites it).
C3_EdgeSeeded_Amended ==
    PassDone =>
        \A n \in Cells :
            LET c == coordinates(n)
            IN  (c[1] \in {0, Nx - 1} \/ c[2] \in {0, Ny - 1} \/ c[3] \in {0, Nz - 1})
                    => /\ flags[n] = TYPE_E
                       /\ ux[n] = IF vox[n] = TYPE_S THEN u_default ELSE lbm_u

\* C3 witness: after the pass, an edge cell the voxelizer had solidified is
\* TYPE_E at its pre-pass velocity beside an edge cell seeded with lbm_u.
C3_Witness ==
    /\ PassDone
    /\ \E n \in Cells : vox[n] = TYPE_S /\ flags[n] = TYPE_E /\ ux[n] = u_default
    /\ \E n \in Cells : vox[n] # TYPE_S /\ flags[n] = TYPE_E /\ ux[n] = lbm_u

\* ------------------------------------------------------ the run controller
\* setup.cpp:27, the loop condition, evaluated at the head of every tick.
LoopCondition_noStop == t <= lbm_T

LoopCondition_strict == t < lbm_T /\ running

LoopCondition_failFatal == t <= lbm_T /\ running /\ ~failed_ever

\* The loop test allows one batch more.
LoopCondition_slack == t <= lbm_T + BatchSteps /\ running

LoopCondition == t <= lbm_T /\ running

\* Field exports of one tick: u, rho, flags, and F under FORCE_FIELD.
LastWrite == IF force_field THEN "write_F" ELSE "write_flags"

\* Positions of the control thread inside the while loop of setup.cpp:27-51.
LoopPcs == {"while", "if_key_9", "write_u", "write_rho", "write_flags",
            "write_F", "reset_key_9", "if_key_P", "sleep", "run"}

\* Positions of a tick from its head to its pause check.
TickPcs == {"if_key_9", "write_u", "write_rho", "write_flags", "write_F",
            "reset_key_9", "if_key_P"}

\* setup.cpp:24, lbm.write_status().
WriteStatus ==
    /\ pc = "write_status"
    /\ pc' = "run_init"
    /\ UNCHANGED <<gridvars, ctrlvars>>
    /\ status_writes' = status_writes + 1
    /\ UNCHANGED <<yz_writes, cur, exports, saw9, req_all, stop_hist, res>>

\* setup.cpp:25, lbm.run(0u, lbm_T): the engine initialises itself and does
\* no step.
RunInit_skipped ==
    /\ pc = "run_init"
    /\ pc' = "while"
    /\ UNCHANGED <<gridvars, ctrlvars>>
    /\ UNCHANGED newvars

RunInit ==
    /\ pc = "run_init"
    /\ inits' = inits + 1
    /\ pc' = "while"
    /\ UNCHANGED <<gridvars, simvars, keyvars, force_field, batches,
                   ever_paused, failed_ever, t_stop, tickhist, reqhist>>
    /\ UNCHANGED newvars

\* setup.cpp:27, while(lbm.get_t()<=lbm_T && running): a tick begins, or the
\* loop is left.
While ==
    /\ pc = "while"
    /\ pc' = IF LoopCondition THEN "if_key_9" ELSE "write_status_end"
    /\ tick_t' = t
    /\ tick_key9' = key_9
    /\ set9' = FALSE
    /\ tick_paused' = FALSE
    /\ tick_failed' = FALSE
    /\ req9' = "none"
    /\ UNCHANGED <<gridvars, simvars, keyvars, force_field, runhist, req_paused>>
    /\ stop_hist' = IF stop_hist.case \in HeldCases
                    THEN [stop_hist EXCEPT !.heads = stop_hist.heads + 1]
                    ELSE stop_hist
    /\ UNCHANGED <<yz_writes, cur, status_writes, exports, saw9, req_all, res>>

\* setup.cpp:29, if(key_9).
IfKey9 ==
    /\ pc = "if_key_9"
    /\ pc' = IF key_9 THEN "write_u" ELSE "if_key_P"
    /\ UNCHANGED <<gridvars, ctrlvars>>
    /\ saw9' = key_9
    /\ UNCHANGED <<yz_writes, cur, status_writes, exports, req_all, stop_hist, res>>

\* One write_device_to_vtk call at position at, then on to position to: the
\* call returns whether the file was written (ok) or not; the caller is not
\* told. The export that serves a pending request is the one that starts
\* after the request (at write_u) and ends with the last field.
Served(req, at) ==
    IF at = "write_u" /\ req = "pending" THEN "exporting"
    ELSE IF at = LastWrite /\ req = "exporting" THEN "served"
    ELSE req

\* The field a write position exports.
Field(at) ==
    CASE at = "write_u" -> "u"
      [] at = "write_rho" -> "rho"
      [] at = "write_flags" -> "flags"
      [] at = "write_F" -> "F"

WriteField(at, to) ==
    /\ pc = at
    /\ pc' = to
    /\ \E ok \in BOOLEAN :
          /\ tick_failed' = (tick_failed \/ ~ok)
          /\ failed_ever' = (failed_ever \/ ~ok)
    /\ req9' = Served(req9, at)
    /\ req_paused' = Served(req_paused, at)
    /\ UNCHANGED <<gridvars, simvars, keyvars, force_field, inits, batches,
                   ever_paused, t_stop, tick_t, tick_key9, set9, tick_paused>>
    /\ exports' = Append(exports, Field(at))
    /\ req_all' = IF Served(req_all, at) = "served" THEN "none"
                  ELSE Served(req_all, at)
    /\ UNCHANGED <<yz_writes, cur, status_writes, saw9, stop_hist, res>>

\* setup.cpp:33, lbm.u.write_device_to_vtk(manual_path).
WriteU == WriteField("write_u", "write_rho")

\* The density export is left out of the export branch.
WriteRho_skipped ==
    /\ pc = "write_rho"
    /\ pc' = "write_flags"
    /\ UNCHANGED <<gridvars, simvars, keyvars, force_field, runhist, tickhist,
                   reqhist, newvars>>

\* setup.cpp:34, lbm.rho.write_device_to_vtk(manual_path).
WriteRho == WriteField("write_rho", "write_flags")

\* setup.cpp:35-38, lbm.flags.write_device_to_vtk(manual_path), followed by
\* the export of F only under FORCE_FIELD.
WriteFlags ==
    WriteField("write_flags", IF force_field THEN "write_F" ELSE "reset_key_9")

\* setup.cpp:37, lbm.F.write_device_to_vtk(manual_path).
WriteF == force_field /\ WriteField("write_F", "reset_key_9")

\* setup.cpp:40, key_9 = false.
ResetKey9_ifSaved ==
    /\ pc = "reset_key_9"
    /\ key_9' = IF tick_failed THEN key_9 ELSE FALSE
    /\ pc' = "if_key_P"
    /\ UNCHANGED <<gridvars, simvars, running, key_P, force_field, runhist,
                   tickhist, reqhist>>
    /\ req_all' = IF req_all = "pending" THEN "lost" ELSE "none"
    /\ UNCHANGED <<yz_writes, cur, status_writes, exports, saw9, stop_hist, res>>

\* The export branch also puts the run on pause.
ResetKey9_pausing ==
    /\ pc = "reset_key_9"
    /\ key_9' = FALSE
    /\ key_P' = FALSE
    /\ pc' = "if_key_P"
    /\ UNCHANGED <<gridvars, simvars, running, force_field, runhist,
                   tickhist, reqhist>>
    /\ req_all' = IF req_all = "pending" THEN "lost" ELSE "none"
    /\ UNCHANGED <<yz_writes, cur, status_writes, exports, saw9, stop_hist, res>>

ResetKey9 ==
    /\ pc = "reset_key_9"
    /\ key_9' = FALSE
    /\ pc' = "if_key_P"
    /\ UNCHANGED <<gridvars, simvars, running, key_P, force_field, runhist,
                   tickhist, reqhist>>
    /\ req_all' = IF req_all = "pending" THEN "lost" ELSE "none"
    /\ UNCHANGED <<yz_writes, cur, status_writes, exports, saw9, stop_hist, res>>

\* setup.cpp:45-50, if(!key_P) { sleep; continue; } else lbm.run(20u, lbm_T)
\* is called: a batch is issued.
IfKeyP ==
    /\ pc = "if_key_P"
    /\ IF ~key_P
       THEN /\ pc' = "sleep"
            /\ tick_paused' = TRUE
            /\ ever_paused' = TRUE
            /\ req_paused' = IF req9 # "none" THEN req9 ELSE req_paused
            /\ req9' = "none"
            /\ UNCHANGED batches
       ELSE /\ pc' = "run"
            /\ batches' = batches + 1
            /\ req9' = "none"
            /\ UNCHANGED <<tick_paused, ever_paused, req_paused>>
    /\ UNCHANGED <<gridvars, simvars, keyvars, force_field, inits,
                   failed_ever, t_stop, tick_t, tick_key9, set9, tick_failed>>
    /\ exports' = <<>>
    /\ saw9' = FALSE
    /\ req_all' = IF req_all = "lost" THEN "none" ELSE req_all
    /\ stop_hist' = IF key_P /\ stop_hist.case \in HeldCases
                    THEN [stop_hist EXCEPT !.issued = stop_hist.issued + 1]
                    ELSE stop_hist
    /\ UNCHANGED <<yz_writes, cur, status_writes, res>>

\* setup.cpp:46-47, sleep(0.016); continue;
Sleep ==
    /\ pc = "sleep"
    /\ pc' = "while"
    /\ UNCHANGED <<gridvars, ctrlvars>>
    /\ UNCHANGED newvars

\* One engine step inside lbm.run(20u, lbm_T) (setup.cpp:50): the call is
\* blocking and does all its steps, whatever the key flags become meanwhile.
EngineStep ==
    /\ pc = "run"
    /\ steps < BatchSteps
    /\ t' = t + 1
    /\ steps' = steps + 1
    /\ UNCHANGED <<gridvars, pc, keyvars, force_field, runhist, tickhist,
                   reqhist>>
    /\ UNCHANGED newvars

\* lbm.run(20u, lbm_T) returns; the loop goes back to its head.
RunReturn ==
    /\ pc = "run"
    /\ steps = BatchSteps
    /\ steps' = 0
    /\ pc' = "while"
    /\ req_paused' = "none"
    /\ UNCHANGED <<gridvars, t, keyvars, force_field, runhist, tickhist, req9>>
    /\ UNCHANGED newvars

\* The loop is left without the closing status line.
WriteStatusEnd_skipped ==
    /\ pc = "write_status_end"
    /\ pc' = "done"
    /\ UNCHANGED <<gridvars, ctrlvars>>
    /\ status_writes' = status_writes
    /\ UNCHANGED <<yz_writes, cur, exports, saw9, req_all, stop_hist, res>>

\* setup.cpp:52, lbm.write_status() after the loop; main_setup returns.
WriteStatusEnd ==
    /\ pc = "write_status_end"
    /\ pc' = "done"
    /\ UNCHANGED <<gridvars, ctrlvars>>
    /\ status_writes' = status_writes + 1
    /\ UNCHANGED <<yz_writes, cur, exports, saw9, req_all, stop_hist, res>>

\* ------------------------------------------------------- the input handler
\* Key 9: the export trigger is set.
Press9 ==
    /\ pc # "done"
    /\ key_9' = TRUE
    /\ set9' = TRUE
    /\ req9' = IF pc \in TickPcs THEN "pending" ELSE req9
    /\ req_paused' = IF tick_paused /\ pc \in {"sleep", "while"}
                      THEN "pending" ELSE req_paused
    /\ UNCHANGED <<gridvars, pc, simvars, running, key_P, force_field, runhist,
                   tick_t, tick_key9, tick_paused, tick_failed>>
    /\ req_all' = "pending"
    /\ UNCHANGED <<yz_writes, cur, status_writes, exports, saw9, stop_hist, res>>

\* Key P: the run/pause flag is toggled.
PressP ==
    /\ pc # "done"
    /\ key_P' = ~key_P
    /\ UNCHANGED <<gridvars, pc, simvars, running, key_9, force_field, runhist,
                   tickhist, reqhist>>
    /\ stop_hist' = IF stop_hist.case \in HeldCases
                    THEN [NotStopped EXCEPT !.case = "other"] ELSE stop_hist
    /\ UNCHANGED <<yz_writes, cur, status_writes, exports, saw9, req_all, res>>

\* How a stop request finds the run: with the flag on pause and the control
\* thread not committed to a batch; on pause with the control thread
\* committed to the batch of its tick (it has read key_P as set at
\* setup.cpp:45 and is about to call lbm.run at line 50, or is inside that
\* call); or other (the flag is not on pause).
StopCase ==
    IF key_P THEN "other"
    ELSE IF pc = "run" THEN "paused_committed"
    ELSE "paused_idle"

\* Window closed or Esc: the stop request.
Stop ==
    /\ pc # "done"
    /\ running
    /\ running' = FALSE
    /\ t_stop' = t
    /\ UNCHANGED <<gridvars, pc, simvars, key_9, key_P, force_field, inits,
                   batches, ever_paused, failed_ever, tickhist, reqhist>>
    /\ stop_hist' = [NotStopped EXCEPT
                        !.case = StopCase,
                        !.steps = IF StopCase = "paused_committed"
                                  THEN steps ELSE 0]
    /\ UNCHANGED <<yz_writes, cur, status_writes, exports, saw9, req_all, res>>

\* ------------------------------------------------------------ specifications
Controller ==
    \/ WriteStatus \/ RunInit \/ While \/ IfKey9
    \/ WriteU \/ WriteRho \/ WriteFlags \/ WriteF \/ ResetKey9
    \/ IfKeyP \/ Sleep \/ EngineStep \/ RunReturn \/ WriteStatusEnd

InputHandler == Press9 \/ PressP \/ Stop

Next == NextSetup \/ Controller \/ InputHandler

Init == InitWith({RunShape}) /\ force_field \in BOOLEAN /\ res = ResIdle

Spec == Init /\ [][Next]_vars

\* The control thread and the workers are scheduled: a call that can return
\* does return, sleep(0.016) ends. Nothing is assumed of the input handler.
FairSpec == Spec /\ WF_vars(NextSetup \/ Controller)

\* ------------------------------------------------ claims on the controller
\* C4 as stated. With step budget T = 100 and batch size 20, running true
\* throughout and no tick paused, the controller has issued at most 5
\* stepping batches ("exactly 5, or fewer") when it reaches TERMINATED.
C4_FiveBatches_Original ==
    (lbm_T = 100 /\ BatchSteps = 20 /\ pc = "done" /\ running /\ ~ever_paused)
        => batches <= 5

\* C4 as amended. With running true throughout and no tick paused, the
\* controller reaches TERMINATED after exactly T div 20 + 1 batches with
\* t = 20 * batches: for T = 100 that is 6 batches (issued at t = 0, 20, 40,
\* 60, 80 and 100, since the loop test is t <= T) and t = 120.
C4_Batches_Amended ==
    (pc = "done" /\ running /\ ~ever_paused)
        => /\ batches = (lbm_T \div BatchSteps) + 1
           /\ t = BatchSteps * batches
           /\ (lbm_T = 100 => (batches = 6 /\ t = 120))

\* C4 witness: an unpaused, unstopped run with T = 100 has terminated after
\* its sixth batch.
C4_Witness ==
    pc = "done" /\ running /\ ~ever_paused /\ lbm_T = 100 /\ batches = 6 /\ t = 120

\* C5 as stated. Pause transparency: while a tick has read key_P as paused,
\* t is what it was when the tick began; and whenever a stepping batch is
\* issued, no set of key_9 that fell in a paused tick is still waiting for
\* its field export (u, rho, flags and, under FORCE_FIELD, F, started after
\* the set).
C5_PauseTransparency_Claim ==
    /\ tick_paused => t = tick_t
    /\ pc = "run" => req_paused \notin {"pending", "exporting"}

\* C6. Export trigger idempotence: when a tick began with key_9 true and the
\* input handler has not set key_9 since, key_9 is false when the next tick
\* is about to begin, whether or not a field export of the tick failed.
C6_TriggerCleared ==
    (pc = "while" /\ tick_key9 /\ ~set9) => ~key_9

\* C6 witness: the next tick is about to begin after a tick that began with
\* key_9 true and whose export failed; key_9 is false.
C6_Witness ==
    pc = "while" /\ tick_key9 /\ ~set9 /\ tick_failed /\ ~key_9

\* C7. An export failure is not fatal: once a field export has failed, the
\* control thread still leaves the loop only from the loop head, and only
\* with t > T or running false; every other step keeps it inside the loop.
C7_ExportFailureNonFatal ==
    [][(failed_ever /\ pc \in LoopPcs /\ pc' \notin LoopPcs)
          => (pc = "while" /\ pc' = "write_status_end" /\ (t > lbm_T \/ ~running))]_vars

\* C7 witness: a batch is stepping in a tick after the one whose export
\* failed.
C7_Witness ==
    failed_ever /\ ~tick_failed /\ pc = "run" /\ steps > 0

\* C8. Termination: the loop is left exactly at a loop-head check that finds
\* t > T or running false; and under fair scheduling of the control thread,
\* if running stays true and key_P from some point on always indicates
\* running, main_setup eventually returns.
C8_Termination ==
    /\ [][/\ (pc = "while" /\ pc' # "while")
                => ((pc' = "write_status_end") <=> (t > lbm_T \/ ~running))
          /\ (pc' = "write_status_end" /\ pc # "write_status_end")
                => pc = "while"]_vars
    /\ (([]running /\ <>[]key_P) => <>(pc = "done"))

\* C8 witness: main_setup has returned with running still true, the budget
\* exhausted, after some paused ticks.
C8_Witness ==
    pc = "done" /\ running /\ t > lbm_T /\ ever_paused

\* C9. Stop latency: every issued batch runs all its 20 steps (outside
\* lbm.run, t is 20 times the number of batches issued), and once running is
\* false t is at most 20 beyond its value at the stop request, up to and
\* including TERMINATED.
C9_StopLatency ==
    /\ pc # "run" => t = BatchSteps * batches
    /\ ~running => (t_stop >= 0 /\ t - t_stop <= BatchSteps)

\* C9 witness: the run has terminated on a stop request that arrived right
\* after a loop-head check: one whole batch was stepped after it.
C9_Witness ==
    pc = "done" /\ ~running /\ t_stop >= 0 /\ t - t_stop = BatchSteps

\* C10. Initialisation order: no cell is touched before voxelize_stl has
\* returned; the warm-up call run(0, T) happens only after the lambda has
\* run on every cell index of [0, Nx*Ny*Nz); it happens at most once, and
\* exactly once before the first batch is issued or the first step is done.
C10_InitOrder ==
    /\ touched # {} => pc # "voxelize_stl"
    /\ pc = "voxelize_stl" => vox = [n \in Cells |-> TYPE_F]
    /\ inits > 0 => touched = Cells
    /\ inits <= 1
    /\ (batches > 0 \/ t > 0) => inits = 1

\* C10 witness: the first batch is stepping, after one warm-up call and a
\* pass over both cells of a grid the voxelizer had written to.
C10_Witness ==
    /\ batches = 1 /\ pc = "run" /\ steps > 0 /\ inits = 1
    /\ touched = Cells /\ Cardinality(Cells) = 2
    /\ \E n \in Cells : vox[n] = TYPE_S

\* C11: lbm.write_status() is called exactly twice in a run: once before the
\* warm-up call and the loop, once after the loop is left (whether by the step
\* budget or by the stop request), never inside the loop; after the second
\* call nothing steps the engine, exports a field or writes a status again.
C11_StatusWrites ==
    /\ [](/\ (pc \in {"voxelize_stl", "parallel_for", "write_status"}
                => status_writes = 0 /\ inits = 0 /\ batches = 0 /\ t = 0)
          /\ (pc \in {"run_init", "while", "if_key_9", "write_u", "write_rho",
                      "write_flags", "write_F", "reset_key_9", "if_key_P",
                      "sleep", "run", "write_status_end"}
                => status_writes = 1)
          /\ (pc = "done" => status_writes = 2))
    /\ [][status_writes = 2
            => /\ status_writes' = 2
               /\ t' = t /\ steps' = steps
               /\ batches' = batches /\ inits' = inits
               /\ exports' = exports]_vars

\* The run was stopped after some batches and both status lines are written.
C11_Witness ==
    /\ pc = "done"
    /\ status_writes = 2
    /\ ~running
    /\ batches > 0
    /\ t <= lbm_T

\* C12: a tick that reads key_9 as set enters the export branch and calls
\* write_device_to_vtk exactly once for each tracked field (u, rho, flags, and
\* F when the build has FORCE_FIELD); all these calls are made while key_9 is
\* still set, before key_9 = false, and before the batch of that tick (if any)
\* is issued.
C12_ExportCompleteness ==
    /\ [](/\ (pc \in {"write_u", "write_rho", "write_flags", "write_F",
                      "reset_key_9"} => saw9 /\ key_9)
          /\ (saw9 /\ pc \in {"reset_key_9", "if_key_P"}
                => /\ Len(exports) = (IF force_field THEN 4 ELSE 3)
                   /\ {exports[i] : i \in 1..Len(exports)}
                        = {"u", "rho", "flags"}
                            \cup (IF force_field THEN {"F"} ELSE {})))
    /\ [][/\ (pc = "if_key_9" /\ pc' # pc
                => saw9' = key_9 /\ (key_9 => pc' = "write_u"))
          /\ (key_9 /\ ~key_9' => pc = "reset_key_9")
          /\ (batches' # batches => pc = "if_key_P")]_vars

\* A FORCE_FIELD build has exported its four fields in a tick and issues the
\* batch of that tick next.
C12_Witness ==
    /\ pc = "if_key_P"
    /\ saw9
    /\ force_field
    /\ Len(exports) = 4
    /\ key_P
    /\ batches > 0

\* C13: no step of the control thread (a step that moves its position, the
\* engine, or the grid) writes `running` or key_P; the only change it makes
\* to key_9 is key_9 = false, at setup.cpp:40, in a tick that read key_9 as
\* set; and no step of the export branch changes the step counter t.
C13_ControlSignalFrame ==
    [][/\ (pc' # pc \/ t' # t \/ steps' # steps \/ flags' # flags
             \/ ux' # ux \/ touched' # touched \/ next_n' # next_n)
            => /\ running' = running
               /\ key_P' = key_P
               /\ (key_9' # key_9
                     => pc = "reset_key_9" /\ saw9 /\ key_9 /\ ~key_9')
       /\ (pc \in {"if_key_9", "write_u", "write_rho", "write_flags",
                   "write_F", "reset_key_9"}
            => t' = t /\ steps' = steps)]_vars

\* After some batches a tick has read key_9 as set, exported, and cleared it.
C13_Witness ==
    /\ pc = "if_key_P"
    /\ saw9
    /\ ~key_9
    /\ Len(exports) >= 3
    /\ t > 0

\* ------------------------------------------------- the resolution solver
\* resolution(box_aspect_ratio, memory) of setup.cpp:5: the largest uniform
\* scale s such that the box (s*ax, s*ay, s*az), rounded to whole cell counts,
\* costs no more memory than the budget; the smallest shape <<1, 1, 1>> when
\* no scale fits. Scales are the multiples of 1/ScaleDen up to MaxScale.
MaxAspect == 2
MaxBudget == 24
ScaleDen == 2
CellCost == 2
MaxScale == ScaleDen * (MaxBudget + 1)

Aspects == (1..MaxAspect) \X (1..MaxAspect) \X (1..MaxAspect)
Budgets == 0..MaxBudget

\* s*a for s = k/ScaleDen, rounded to the nearest whole number, at least 1.
RoundCells(k, a) ==
    LET r == (2 * k * a + ScaleDen) \div (2 * ScaleDen)
    IN  IF r < 1 THEN 1 ELSE r

ShapeAt(aspect, k) ==
    <<RoundCells(k, aspect[1]), RoundCells(k, aspect[2]),
      RoundCells(k, aspect[3])>>

MemoryOf(shape) == CellCost * shape[1] * shape[2] * shape[3]

\* The budget is taken modulo 8 units before the comparison.
Fitting_wrapped(aspect, budget) ==
    {k \in 0..MaxScale : MemoryOf(ShapeAt(aspect, k)) <= budget % 8}

Fitting(aspect, budget) ==
    {k \in 0..MaxScale : MemoryOf(ShapeAt(aspect, k)) <= budget}

resolution(aspect, budget) ==
    LET fit == Fitting(aspect, budget)
    IN  IF fit = {} THEN <<1, 1, 1>>
        ELSE ShapeAt(aspect, CHOOSE k \in fit : \A j \in fit : j <= k)

\* One aspect ratio, two budgets b1 <= b2.
InitResolution ==
    /\ InitWith({RunShape})
    /\ force_field = FALSE
    /\ res \in {[aspect |-> a, b1 |-> x, b2 |-> y, out |-> <<>>] :
                  a \in Aspects, x \in Budgets, y \in Budgets}
    /\ res.b1 <= res.b2

\* resolution() is called for both budgets.
Resolve ==
    /\ res.out = <<>>
    /\ res' = [res EXCEPT !.out = <<resolution(res.aspect, res.b1),
                                    resolution(res.aspect, res.b2)>>]
    /\ UNCHANGED <<gridvars, pc, simvars, keyvars, force_field, runhist,
                   tickhist, reqhist, yz_writes, cur, status_writes, exports, saw9,
                   req_all, stop_hist>>

NextResolution == Resolve

SpecResolution == InitResolution /\ [][NextResolution]_vars

\* C14: resolution(aspect, budget) is monotone in the budget: for one aspect
\* ratio and budgets b1 <= b2, each of Nx, Ny, Nz returned for b2 is at least
\* the one returned for b1.
C14_ResolutionMonotone ==
    res.out # <<>> /\ res.b1 <= res.b2
        => \A i \in 1..3 : res.out[1][i] <= res.out[2][i]

\* Two budgets that both fit more than the smallest shape and give
\* different shapes.
C14_Witness ==
    /\ res.out # <<>>
    /\ res.b1 < res.b2
    /\ res.out[1] # <<1, 1, 1>>
    /\ res.out[1] # res.out[2]
    /\ MemoryOf(res.out[2]) <= res.b2

\* ------------------------------- parallel_for under any work distribution
\* The same pass with the cells handed to the workers in any order and the
\* two statements of the lambda as separate steps: a worker takes any cell no
\* worker has taken and runs setup.cpp:18 on it, then runs setup.cpp:19 on it.
MaxParCells == 6

ParShapes == {s \in GridShapes : s[1] * s[2] * s[3] <= MaxParCells}

TakeCell(w, n) ==
    /\ pc = "parallel_for"
    /\ cur[w] = -1
    /\ n \notin touched
    /\ ux' = SeedVelocity(flags, ux, n)
    /\ cur' = [cur EXCEPT ![w] = n]
    /\ touched' = touched \cup {n}
    /\ UNCHANGED <<lbm_N, flags, vox, next_n, pc, ctrlvars, yz_writes, status_writes,
                   exports, saw9, req_all, stop_hist, res>>

FinishCell(w) ==
    /\ pc = "parallel_for"
    /\ cur[w] # -1
    /\ flags' = MarkBoundary(flags, cur[w])
    /\ yz_writes' = CellBodyYZ(yz_writes, cur[w])
    /\ cur' = [cur EXCEPT ![w] = -1]
    /\ UNCHANGED <<lbm_N, ux, vox, next_n, touched, pc, ctrlvars,
                   status_writes, exports, saw9, req_all, stop_hist, res>>

\* parallel_for returns when every cell has been taken and finished.
JoinAny ==
    /\ pc = "parallel_for"
    /\ touched = Cells
    /\ \A w \in Threads : cur[w] = -1
    /\ pc' = "write_status"
    /\ UNCHANGED <<gridvars, ctrlvars, newvars>>

NextAny ==
    \/ Voxelize
    \/ (\E w \in Threads, n \in Cells : TakeCell(w, n))
    \/ (\E w \in Threads : FinishCell(w))
    \/ JoinAny

InitAny == InitWith(ParShapes) /\ force_field = FALSE /\ res = ResIdle

SpecAny == InitAny /\ [][NextAny]_vars

\* The lambda called for n = from, from + 1, ..., N - 1 in this order by one
\* thread.
RECURSIVE SequentialPass(_, _, _)
SequentialPass(f, u, from) ==
    IF from >= get_N THEN [flags |-> f, ux |-> u]
    ELSE LET r == CellBody(f, u, from)
         IN  SequentialPass(r.flags, r.ux, from + 1)

\* C15: a call of the lambda writes no flag or x-velocity slot but those of
\* its own index n, and whatever the order and the worker in which cells are
\* processed and however the calls interleave, the flags and x-velocities
\* after the pass are those the sequential pass n = 0 .. N-1 leaves.
C15_ParallelDeterminism ==
    /\ pc = "parallel_for"
         => \A n \in Cells : \A k \in Cells \ {n} :
                /\ SeedVelocity(flags, ux, n)[k] = ux[k]
                /\ MarkBoundary(flags, n)[k] = flags[k]
    /\ pc = "write_status"
         => LET seq == SequentialPass(vox, [n \in Cells |-> u_default], 0)
            IN  flags = seq.flags /\ ux = seq.ux

\* The pass is over on a grid of at least four cells with a solid cell that
\* was not seeded and a cell that was.
C15_Witness ==
    /\ pc = "write_status"
    /\ get_N >= 4
    /\ \E n \in Cells : vox[n] = TYPE_S /\ ux[n] = u_default
    /\ \E n \in Cells : ux[n] = lbm_u

\* C16: the boundary initializer pass changes the flag of no cell that lies
\* off the six faces, writes the y or z velocity of no cell, and writes the
\* x velocity only of cells whose flag was not TYPE_S when the lambda was
\* called for them (the flag voxelize_stl left, as no other call writes it).
C16_PassFrame ==
    /\ yz_writes = {}
    /\ pc = "write_status" =>
          \A n \in Cells :
              /\ ux[n] # u_default => vox[n] # TYPE_S
              /\ flags[n] # vox[n]
                   => LET c == coordinates(n)
                      IN  ~(/\ 0 < c[1] /\ c[1] < Nx - 1
                            /\ 0 < c[2] /\ c[2] < Ny - 1
                            /\ 0 < c[3] /\ c[3] < Nz - 1)

\* The pass is over on a grid with a solid interior cell, which kept its flag
\* and its velocity, while a cell that was not solid was seeded.
C16_Witness ==
    /\ pc = "write_status"
    /\ \E n \in Cells :
          LET c == coordinates(n)
          IN  /\ 0 < c[1] /\ c[1] < Nx - 1
              /\ 0 < c[2] /\ c[2] < Ny - 1
              /\ 0 < c[3] /\ c[3] < Nz - 1
              /\ vox[n] = TYPE_S /\ flags[n] = TYPE_S /\ ux[n] = u_default
    /\ \E n \in Cells : vox[n] # TYPE_S /\ ux[n] = lbm_u

\* C17 as stated: if `running` becomes false while key_P shows pause, and
\* key_P stays on pause, the control thread leaves the loop at its next
\* loop-head check without issuing a batch, and t at termination equals t at
\* the moment of the stop request.
C17_StopWhilePaused_Original ==
    pc = "done" /\ stop_hist.case \in {"paused_idle", "paused_committed"}
        => /\ stop_hist.heads <= 1
           /\ stop_hist.issued = 0
           /\ t = t_stop

\* C17 amended: under the same condition the control thread leaves the loop
\* at its next loop-head check, and no tick whose pause check (setup.cpp:45)
\* comes after the stop request issues a batch. t at termination equals t at
\* the stop request unless, at the stop request, the control thread had
\* already read key_P as set in its current tick: the batch of that tick is
\* then run to its end (all of its 20 steps if the stop request fell before
\* the first of them), and t at termination is the end of that batch, at
\* most 20 steps after the stop request.
C17_StopWhilePaused_Amended ==
    stop_hist.case \in {"paused_idle", "paused_committed"}
        => /\ ~running /\ ~key_P
           /\ stop_hist.heads <= 1
           /\ stop_hist.issued = 0
           /\ (stop_hist.heads = 1 => pc \in {"write_status_end", "done"})
           /\ (stop_hist.case = "paused_idle" => t = t_stop /\ pc # "run")
           /\ (stop_hist.case = "paused_committed"
                 => /\ 0 <= stop_hist.steps /\ stop_hist.steps <= BatchSteps
                    /\ t_stop <= t
                    /\ t <= t_stop + (BatchSteps - stop_hist.steps)
                    /\ (pc # "run"
                          => t = t_stop + (BatchSteps - stop_hist.steps)))

\* The pause and the stop request came after the tick had read key_P as set
\* and before the first step of its batch; the run has terminated a whole
\* batch later.
C17_Witness ==
    /\ pc = "done"
    /\ stop_hist.case = "paused_committed"
    /\ stop_hist.heads = 1
    /\ stop_hist.steps = 0
    /\ t_stop > 0
    /\ t = t_stop + BatchSteps
    /\ t <= lbm_T

\* C18: at every loop-head check t is a multiple of 20 (the batch size); a
\* batch is issued only when t <= T at the head of its tick, so t never
\* exceeds T + 20; and when the loop is left with `running` still true, that
\* is by exhaustion of the step budget, T < t <= T + 20.
C18_BudgetOvershoot ==
    /\ pc = "while" => t % BatchSteps = 0
    /\ pc = "run" => t - steps <= lbm_T /\ (t - steps) % BatchSteps = 0
    /\ t <= lbm_T + BatchSteps
    /\ pc \in {"write_status_end", "done"} /\ running
         => lbm_T < t /\ t <= lbm_T + BatchSteps

\* The loop was left on the step budget after a run with paused ticks.
C18_Witness ==
    /\ pc = "done"
    /\ running
    /\ ever_paused
    /\ t > lbm_T
    /\ t = BatchSteps * batches

\* C19 as stated: with the input handler setting key_9 at any moment, also
\* between the tick's if(key_9), its write_device_to_vtk calls and its
\* key_9 = false, every set of key_9 made while the loop keeps running is
\* followed by a full field export that starts after that set. As a state
\* property: key_9 is never cleared while its latest set has had no export
\* start after it, with the loop going on (running, t <= T).
C19_NoLostRequest_Claim ==
    ~(req_all = "lost" /\ ~key_9 /\ running /\ t <= lbm_T)

====
